---- MODULE Spec2Model ----
(***************************************************************************)
(* Model of the chain engine of BlockChainBrainrot: the block data model   *)
(* and proof of work (core/node_core.py), chain validation and consensus   *)
(* resolution (core/blockchain_core.py) and the peer registry.             *)
(*                                                                         *)
(* Eight specifications:                                                   *)
(*   SpecChain     a chain of block dicts is mined, edited the way a peer  *)
(*                 may edit the JSON it serves, and handed to valid_chain; *)
(*   Spec          a node with a peer registry and a stored chain runs     *)
(*                 register_node and resolve_conflicts against peers whose *)
(*                 answers are fixed at the start of the behaviour, while  *)
(*                 mined blocks are saved between the call's awaits;       *)
(*   SpecLive      Spec with weak fairness on the steps of the running     *)
(*                 resolve_conflicts call;                                 *)
(*   SpecBlock     mine_block, Block(...), compute_merkle_root and the     *)
(*                 to_json/from_json round trip, each applied to an input; *)
(*   SpecRegistry  POST /nodes/register, one request after the other;      *)
(*   SpecStore     the storage under save_block and chain replacement;     *)
(*   SpecService   the admin application (routes/admin_handling.py) with   *)
(*                 its mining service and balance pool service             *)
(*                 (routes/utils.py), from startup to shutdown;            *)
(*   SpecServiceLive  SpecService with weak fairness on the steps of the   *)
(*                 mining loop tasks.                                      *)
(***************************************************************************)
EXTENDS Integers, Sequences, FiniteSets, TLC

(***************************************************************************)
(* Bounds of the model.                                                    *)
(***************************************************************************)
MaxChain == 2        \* blocks in a chain handed to valid_chain (SpecChain)
MaxDifficulty == 1   \* largest difficulty a block is mined with
MaxPeerLen == 2      \* blocks in the longest chain a peer serves (Spec)
MaxLocal == 1        \* blocks in the node's own chain at start (Spec)
MaxTxs == 4          \* transactions in a list given to compute_merkle_root
MaxNonce == 2        \* largest nonce a header holds when mining starts
MaxStore == 2        \* blocks save_block is let to store (SpecStore)
MaxTasks == 2        \* mining loop tasks start() is let to make (SpecService)

Difficulties == 0..MaxDifficulty

(***************************************************************************)
(* Text and SHA-256.                                                       *)
(*                                                                         *)
(* A text is a sequence of integers.  A number is written in decimal, one  *)
(* digit per element, as an f-string writes it.  A hex digest is a text    *)
(* of fixed width (64 characters): inside a longer text it is written      *)
(* length-prefixed (HexField), which keeps the place where it ends as      *)
(* unambiguous as the fixed width does.  Numbers written one after the     *)
(* other are NOT delimited, exactly as in the header string.               *)
(*                                                                         *)
(* sha256 is collision free: the digest of a text is the text behind the   *)
(* tag 1.  The literal "0" * 64 is <<0>>; <<2, z, k>> is the k-th hex      *)
(* string with z leading zeros that is the digest of no text of the model. *)
(* The number of leading '0' characters of a digest is a fixed function of *)
(* the hashed text with values 0..MaxDifficulty.                           *)
(***************************************************************************)
RECURSIVE Str(_)
Str(n) == IF n < 10 THEN <<n>> ELSE Str(n \div 10) \o <<n % 10>>

RECURSIVE SumSeq(_)
SumSeq(s) == IF s = <<>> THEN 0 ELSE s[1] + SumSeq(Tail(s))

HexField(h) == <<Len(h)>> \o h

sha256(text) == <<1>> \o text

ZeroHash == <<0>>

JunkHash(z, k) == <<2, z, k>>

LeadingZeros(h) ==
    IF h[1] = 0 THEN 64
    ELSE IF h[1] = 2 THEN h[2]
    ELSE SumSeq(h) % (MaxDifficulty + 1)

\* h.startswith('0' * d)
StartsWithZeros(h, d) == LeadingZeros(h) >= d

(***************************************************************************)
(* Transaction (node_core.py:8-46).  Names are numbers.                    *)
(***************************************************************************)
Tx(s, r, a, t) == [sender |-> s, receiver |-> r, amount |-> a, timestamp |-> t]

\* Transaction.__init__ (lines 14-18): "timestamp or time.time()" replaces a
\* timestamp of None or 0 by the clock; now is time.time()
Transaction_init(sender, receiver, amount, timestamp, now) ==
    Tx(sender, receiver, amount, IF timestamp = 0 THEN now ELSE timestamp)

\* TxJson with the amount alone
TxJson_AmountOnly(tx) == <<-1, tx.amount, -3>>

\* json.dumps(to_dict(), sort_keys=True): keys in sorted order, self-delimiting
TxJson(tx) == <<-1, tx.amount, -2, tx.receiver, -2, tx.sender, -2, tx.timestamp, -3>>

Transaction_calculate_hash(tx) == sha256(TxJson(tx))

(***************************************************************************)
(* BlockHeader (node_core.py:49-92).                                       *)
(***************************************************************************)
BlockHeader(previous_hash, merkle_root, timestamp, nonce, difficulty) ==
    [previous_hash |-> previous_hash, merkle_root |-> merkle_root,
     timestamp |-> timestamp, nonce |-> nonce, difficulty |-> difficulty]

\* f"{previous_hash}{merkle_root}{timestamp}{nonce}{difficulty}"
HeaderString(previous_hash, merkle_root, timestamp, nonce, difficulty) ==
    HexField(previous_hash) \o HexField(merkle_root)
        \o Str(timestamp) \o Str(nonce) \o Str(difficulty)

BlockHeader_calculate_hash(h) ==
    sha256(HeaderString(h.previous_hash, h.merkle_root, h.timestamp, h.nonce,
                        h.difficulty))

(***************************************************************************)
(* Block (node_core.py:94-179).                                            *)
(***************************************************************************)
\* MerkleReduce with the last hash of an odd level dropped, not duplicated
RECURSIVE MerkleReduce_NoDup(_)
MerkleReduce_NoDup(tx_hashes) ==
    IF Len(tx_hashes) <= 1 THEN tx_hashes[1]
    ELSE MerkleReduce_NoDup([i \in 1..(Len(tx_hashes) \div 2) |->
             sha256(HexField(tx_hashes[2 * i - 1]) \o HexField(tx_hashes[2 * i]))])

RECURSIVE MerkleReduce(_)
MerkleReduce(tx_hashes) ==
    IF Len(tx_hashes) <= 1 THEN tx_hashes[1]
    ELSE LET padded == IF Len(tx_hashes) % 2 # 0
                       THEN Append(tx_hashes, tx_hashes[Len(tx_hashes)])
                       ELSE tx_hashes
         IN MerkleReduce([i \in 1..(Len(padded) \div 2) |->
                sha256(HexField(padded[2 * i - 1]) \o HexField(padded[2 * i]))])

compute_merkle_root(transactions) ==
    IF transactions = <<>> THEN sha256(<<>>)
    ELSE MerkleReduce([i \in 1..Len(transactions) |->
                          Transaction_calculate_hash(transactions[i])])

\* mine_block with the nonce stepped once more after the attempt that met the
\* difficulty
mine_block_Overshoot(h) ==
    IF StartsWithZeros(BlockHeader_calculate_hash(h), h.difficulty)
    THEN [h EXCEPT !.nonce = @ + 1]
    ELSE [h EXCEPT !.nonce = @ + 2]

\* mine_block with the search started at nonce 0 whatever the header holds
mine_block_FromZero(h) ==
    [h EXCEPT !.nonce =
        CHOOSE n \in 0..MaxDifficulty :
            /\ StartsWithZeros(BlockHeader_calculate_hash([h EXCEPT !.nonce = n]),
                               h.difficulty)
            /\ \A m \in 0..(n - 1) :
                   ~StartsWithZeros(
                       BlockHeader_calculate_hash([h EXCEPT !.nonce = m]),
                       h.difficulty)]

\* the header as mine_block leaves it: the nonce search of the while loop
RECURSIVE mine_block(_)
mine_block(h) ==
    IF StartsWithZeros(BlockHeader_calculate_hash(h), h.difficulty) THEN h
    ELSE mine_block([h EXCEPT !.nonce = @ + 1])

\* the value mine_block returns: hash_val of the attempt that met the
\* difficulty (lines 131-133)
RECURSIVE mine_block_return(_)
mine_block_return(h) ==
    LET hash_val == BlockHeader_calculate_hash(h)
    IN IF StartsWithZeros(hash_val, h.difficulty) THEN hash_val
       ELSE mine_block_return([h EXCEPT !.nonce = @ + 1])

\* Block.__init__ followed by to_dict: the block as the dict that is served
\* to peers and validated by valid_chain; now is time.time()
NewBlock(index, transactions, previous_hash, difficulty, now) ==
    LET root == compute_merkle_root(transactions)
        hdr == mine_block(BlockHeader(previous_hash, root, now, 0, difficulty))
    IN [index |-> index,
        hash |-> mine_block_return(BlockHeader(previous_hash, root, now, 0,
                                               difficulty)),
        merkle_root |-> root,
        header |-> hdr,
        transactions |-> transactions]

(***************************************************************************)
(* Blockchain.valid_chain (blockchain_core.py:29-65) on a list of block    *)
(* dicts that carry every key.                                             *)
(***************************************************************************)
\* PowOk with one leading zero too few asked for
PowOk_OneShort(block) ==
    StartsWithZeros(block.hash, block.header.difficulty - 1)

\* line 37 and line 60
PowOk(block) == StartsWithZeros(block.hash, block.header.difficulty)

\* LinkOk with the comparison left out
LinkOk_Skipped(block, last_block) == TRUE

\* line 47
LinkOk(block, last_block) == block.header.previous_hash = last_block.hash

\* lines 53-56: the hash is recomputed with the block's merkle_root, not the
\* header's
HashOk(block) ==
    sha256(HeaderString(block.header.previous_hash, block.merkle_root,
                        block.header.timestamp, block.header.nonce,
                        block.header.difficulty)) = block.hash

\* the loop of lines 41-62, from position i (1-based) on
RECURSIVE valid_chain_loop(_, _)
valid_chain_loop(chain, i) ==
    IF i > Len(chain) THEN TRUE
    ELSE IF ~LinkOk(chain[i], chain[i - 1]) THEN FALSE
    ELSE IF ~HashOk(chain[i]) THEN FALSE
    ELSE IF ~PowOk(chain[i]) THEN FALSE
    ELSE valid_chain_loop(chain, i + 1)

\* lines 32-39: empty chain, then the genesis block's proof of work only
GenesisOk(chain) == chain # <<>> /\ PowOk(chain[1])

valid_chain(chain) ==
    IF ~GenesisOk(chain) THEN FALSE ELSE valid_chain_loop(chain, 2)

(***************************************************************************)
(* Blockchain.valid_chain_headers (blockchain_core.py:67-111) on a list of *)
(* header dicts.  A header dict carries the five header fields and "hash"; *)
(* the key "index", read only by the log lines of the loop, may be absent  *)
(* (NoKey): the f-string of the log line then raises KeyError.             *)
(***************************************************************************)
NoKey == -1

HeaderDictHash(header) ==
    sha256(HeaderString(header.previous_hash, header.merkle_root,
                        header.timestamp, header.nonce, header.difficulty))

\* lines 88-108; the result is "True", "False" or "KeyError"
RECURSIVE valid_chain_headers_loop(_, _)
valid_chain_headers_loop(headers, i) ==
    IF i > Len(headers) THEN "True"
    ELSE IF \/ headers[i].previous_hash # headers[i - 1].hash
            \/ HeaderDictHash(headers[i]) # headers[i].hash
            \/ ~StartsWithZeros(headers[i].hash, headers[i].difficulty)
         THEN (IF headers[i].index = NoKey THEN "KeyError" ELSE "False")
    ELSE valid_chain_headers_loop(headers, i + 1)

valid_chain_headers(headers) ==
    IF headers = <<>> THEN "False"
    ELSE IF HeaderDictHash(headers[1]) # headers[1].hash THEN "False"
    ELSE IF ~StartsWithZeros(headers[1].hash, headers[1].difficulty) THEN "False"
    ELSE valid_chain_headers_loop(headers, 2)

(***************************************************************************)
(* State.                                                                  *)
(***************************************************************************)
VARIABLES
    \* SpecChain: the list handed to valid_chain
    cand,        \* the chain of block dicts
    orig,        \* the same chain as it was mined, before any edit
    phase,       \* "build", "edited", "resealed", "checked"
    verdict,     \* what valid_chain returned (meaningful when phase = "checked")
    \* Spec: the node
    nodes,       \* Blockchain.nodes: the peer registry, a set of netlocs
    stored,      \* the chain in storage, oldest block first
    self_attrs,  \* attributes assigned on the Blockchain after __init__
    peers,       \* netloc -> what the peer at that netloc answers
    \* Spec: the running resolve_conflicts call
    pc,          \* "idle", "loop", "await_len", "await_hdr", "await_chain",
                 \* "adopt", "done", "hung"
    max_length,  \* local variable max_length
    new_chain,   \* local variable new_chain; <<>> is None
    node,        \* loop variable node; "" outside the loop body
    length,      \* local variable length
    visited,     \* the netlocs the set iterator has yielded
    si_used,     \* the size of the set when the iterator was made
    ret,         \* "none"; "True"/"False" returned; or the exception raised
    \* Spec: what the claims need to remember of the running call
    start_len,     \* the local chain length read at the start
    start_stored,  \* the stored chain at the start
    start_nodes,   \* the registry at the start
    polled,        \* the peers that were sent a request
    replaced,      \* replace_chain has run
    log,           \* the requests sent, in order: the peer, the request,
                   \* max_length when it was sent
    \* SpecBlock: one function of node_core.py applied to one input
    fn,          \* "none", "mine", "merkle", "roundtrip"
    fn_in,       \* the input
    fn_out,      \* the result
    \* SpecRegistry: the last POST /nodes/register
    reg_address, \* payload.address
    reg_ret,     \* "none"; "201", "400"; or the exception that left the route
    reg_known,   \* the address's location was in the registry before the call
    \* SpecStore: the last save_block call
    sv_block,    \* the block handed to save_block; <<>> before any call
    sv_ret,      \* "none"; "True"/"False" returned
    sv_before,   \* the stored blocks before the call
    \* SpecStore: the last replace_chain call
    rp_blocks,   \* the chain handed to replace_chain; <<>> before any call
    rp_ret,      \* "none"; "done" returned; "failed" when the write failed
    rp_before,   \* the stored blocks before the call
    \* SpecService: the admin application's services (routes/utils.py)
    life,              \* the lifespan of admin_handling.py: "init",
                       \* "serving", "closing" (in its last await), "down"
    closed,            \* storage.close() has been called
    mining_is_running, \* mining_service.is_running
    mining_task,       \* mining_service._task: 0 for None, else a task
    tasks,             \* the tasks made for _mining_loop: where each one
                       \* is suspended, whether cancel() was called on it
    stops,             \* the stop() calls suspended in "await self._task"
    event,             \* what the last step did
    stopped,           \* a stop() call has returned and start() has not
                       \* been called since
    stopped_clean,     \* the same for a stop() call during which start()
                       \* was not called
    pool_is_running,   \* pool_service.is_running
    pool_task,         \* where the task of _pool_loop is suspended
    used_closed        \* the pool loop called the storage after close()

varsChain == <<cand, orig, phase, verdict>>

varsCall == <<pc, max_length, new_chain, node, length, visited, si_used, ret,
              start_len, start_stored, start_nodes, polled, replaced, log>>

varsNode == <<nodes, stored, self_attrs, peers, varsCall>>

varsBlock == <<fn, fn_in, fn_out>>

varsReg == <<reg_address, reg_ret, reg_known>>

varsSave == <<sv_block, sv_ret, sv_before>>

varsReplace == <<rp_blocks, rp_ret, rp_before>>

varsService == <<life, closed, mining_is_running, mining_task, tasks, stops,
                 event, stopped, stopped_clean, pool_is_running, pool_task,
                 used_closed>>

varsAux == <<varsBlock, varsReg, varsSave, varsReplace, varsService>>

vars == <<varsChain, varsNode, varsAux>>

(***************************************************************************)
(* Inputs of SpecChain.                                                    *)
(***************************************************************************)
T1 == Tx(1, 2, 5, 1)
T2 == Tx(2, 1, 3, 1)

TxLists == {<<T1>>, <<T1, T2>>}
EditedTxLists == {<<T2>>, <<T2, T1>>, <<T1, T2>>}
Times == {1}

\* hex strings a peer may put where a digest belongs
ForgedHashes == {ZeroHash} \cup {JunkHash(z, 1) : z \in Difficulties}

\* a nonce for every number of leading zeros there is
Nonces == 0..MaxDifficulty

\* the running call's variables when no call runs
CallIdle ==
    /\ pc = "idle"
    /\ max_length = 0
    /\ new_chain = <<>>
    /\ node = ""
    /\ length = 0
    /\ visited = {}
    /\ si_used = 0
    /\ ret = "none"
    /\ start_len = 0
    /\ start_stored = <<>>
    /\ start_nodes = {}
    /\ polled = {}
    /\ replaced = FALSE
    /\ log = <<>>

\* the admin application as it is imported (admin_handling.py:14-16,
\* MiningService.__init__ and PoolService.__init__): nothing started
ServiceIdle ==
    /\ life = "init"
    /\ closed = FALSE
    /\ mining_is_running = FALSE
    /\ mining_task = 0
    /\ tasks = [t \in 1..MaxTasks |-> [st |-> "none", cancel |-> FALSE]]
    /\ stops = {}
    /\ event = [kind |-> "none", task |-> 0, res |-> "none"]
    /\ stopped = FALSE
    /\ stopped_clean = FALSE
    /\ pool_is_running = FALSE
    /\ pool_task = "none"
    /\ used_closed = FALSE

\* no function applied, no registration request, no storage call yet
AuxIdle ==
    /\ fn = "none"
    /\ fn_in = <<>>
    /\ fn_out = <<>>
    /\ reg_address = "none"
    /\ reg_ret = "none"
    /\ reg_known = FALSE
    /\ sv_block = <<>>
    /\ sv_ret = "none"
    /\ sv_before = <<>>
    /\ rp_blocks = <<>>
    /\ rp_ret = "none"
    /\ rp_before = <<>>
    /\ ServiceIdle

InitChain ==
    /\ cand = <<>>
    /\ orig = <<>>
    /\ phase = "build"
    /\ verdict = FALSE
    /\ nodes = {}
    /\ stored = <<>>
    /\ self_attrs = {}
    /\ peers = <<>>
    /\ CallIdle
    /\ AuxIdle

\* a block is mined on top of the chain: Block(index, txs, previous_hash, d)
MineBlock ==
    /\ phase = "build"
    /\ Len(cand) < MaxChain
    /\ \E txs \in TxLists, d \in Difficulties, now \in Times :
          LET prev == IF cand = <<>> THEN ZeroHash ELSE cand[Len(cand)].hash
              blk == NewBlock(Len(cand), txs, prev, d, now)
          IN /\ cand' = Append(cand, blk)
             /\ orig' = Append(orig, blk)
    /\ UNCHANGED <<phase, verdict, varsNode, varsAux>>

\* one field of one block of the served JSON is changed, nothing else
EditPreviousHash ==
    /\ phase = "build"
    /\ \E i \in 1..Len(cand), h \in ForgedHashes :
          /\ h # cand[i].header.previous_hash
          /\ cand' = [cand EXCEPT ![i].header.previous_hash = h]
    /\ phase' = "edited"
    /\ UNCHANGED <<orig, verdict, varsNode, varsAux>>

EditHash ==
    /\ phase = "build"
    /\ \E i \in 1..Len(cand), h \in ForgedHashes :
          /\ h # cand[i].hash
          /\ cand' = [cand EXCEPT ![i].hash = h]
    /\ phase' = "edited"
    /\ UNCHANGED <<orig, verdict, varsNode, varsAux>>

\* the transactions are changed and nothing else
EditTransactions ==
    /\ phase = "build"
    /\ \E i \in 1..Len(cand), txs \in EditedTxLists :
          /\ txs # cand[i].transactions
          /\ cand' = [cand EXCEPT ![i].transactions = txs]
    /\ phase' = "edited"
    /\ UNCHANGED <<orig, verdict, varsNode, varsAux>>

\* the transactions are changed and the Merkle root is recomputed from them
\* (in the block, and in the header too when hdr); the hash stays
EditMerkle ==
    /\ phase = "build"
    /\ \E i \in 1..Len(cand), txs \in EditedTxLists, hdr \in BOOLEAN :
          /\ txs # cand[i].transactions
          /\ cand' = [cand EXCEPT
                 ![i].transactions = txs,
                 ![i].merkle_root = compute_merkle_root(txs),
                 ![i].header.merkle_root =
                     IF hdr THEN compute_merkle_root(txs) ELSE @]
    /\ phase' = "edited"
    /\ UNCHANGED <<orig, verdict, varsNode, varsAux>>

EditIndex ==
    /\ phase = "build"
    /\ \E i \in 1..Len(cand), k \in 0..MaxChain :
          /\ k # cand[i].index
          /\ cand' = [cand EXCEPT ![i].index = k]
    /\ phase' = "edited"
    /\ UNCHANGED <<orig, verdict, varsNode, varsAux>>

EditDifficulty ==
    /\ phase = "build"
    /\ \E i \in 1..Len(cand), d \in Difficulties :
          /\ d # cand[i].header.difficulty
          /\ cand' = [cand EXCEPT ![i].header.difficulty = d]
    /\ phase' = "edited"
    /\ UNCHANGED <<orig, verdict, varsNode, varsAux>>

\* a block is given a nonce and the hash of its header as it now stands
Reseal ==
    /\ phase \in {"build", "edited"}
    /\ \E i \in 1..Len(cand), n \in Nonces :
          LET hdr == [cand[i].header EXCEPT !.nonce = n]
          IN cand' = [cand EXCEPT ![i].header = hdr,
                                  ![i].hash = BlockHeader_calculate_hash(hdr)]
    /\ phase' = "resealed"
    /\ UNCHANGED <<orig, verdict, varsNode, varsAux>>

\* valid_chain is applied to the list
Validate ==
    /\ phase # "checked"
    /\ verdict' = valid_chain(cand)
    /\ phase' = "checked"
    /\ UNCHANGED <<cand, orig, varsNode, varsAux>>

NextChain ==
    \/ MineBlock
    \/ EditPreviousHash
    \/ EditHash
    \/ EditTransactions
    \/ EditMerkle
    \/ EditIndex
    \/ EditDifficulty
    \/ Reseal
    \/ Validate

SpecChain == InitChain /\ [][NextChain]_vars

(***************************************************************************)
(* The node: peers, their answers, the stored chain.                       *)
(***************************************************************************)
\* settings.my_address (blockchain_core.py:122); config.py declares no such
\* setting, the value is the node's own host:port
MyAddress == "10.0.0.9:8000"

P1 == "10.0.0.1:8001"
P2 == "10.0.0.2:8001"
Peers == {P1, P2}

\* the addresses register_node is called with
Addresses == {"http://10.0.0.1:8001", "10.0.0.1:8001",
              "http://10.0.0.2:8001/chain", "10.0.0.9:8000", ""}

\* urllib.parse.urlparse(address).netloc
UrlNetloc(address) ==
    CASE address = "http://10.0.0.1:8001" -> "10.0.0.1:8001"
      [] address = "http://10.0.0.1:8001/chain" -> "10.0.0.1:8001"
      [] address = "http://10.0.0.2:8001/chain" -> "10.0.0.2:8001"
      [] address = "http://localhost:8001" -> "localhost:8001"
      [] OTHER -> ""

\* urllib.parse.urlparse(address).path: a text without "//" is all path,
\* unless what stands before its first ":" reads as a scheme
UrlPath(address) ==
    CASE address = "10.0.0.1:8001" -> "10.0.0.1:8001"
      [] address = "10.0.0.9:8000" -> "10.0.0.9:8000"
      [] address = "http://10.0.0.2:8001/chain" -> "/chain"
      [] address = "http://10.0.0.1:8001/chain" -> "/chain"
      [] address = "http:///chain" -> "/chain"
      [] address = "localhost:8001" -> "8001"
      [] OTHER -> ""

\* a chain of n blocks mined one on top of the other
RECURSIVE BuildChain(_, _, _)
BuildChain(n, txs, d) ==
    IF n = 0 THEN <<>>
    ELSE LET c == BuildChain(n - 1, txs, d)
             prev == IF c = <<>> THEN ZeroHash ELSE c[Len(c)].hash
         IN Append(c, NewBlock(n - 1, txs, prev, d, 1))

LocalChain(n) == BuildChain(n, <<T2>>, MaxDifficulty)
GoodChain(n) == BuildChain(n, <<T1>>, MaxDifficulty)

\* the header page a peer serves for a chain, with or without "index"
HeadersOf(chain, with_index) ==
    [i \in 1..Len(chain) |->
        [previous_hash |-> chain[i].header.previous_hash,
         merkle_root |-> chain[i].header.merkle_root,
         timestamp |-> chain[i].header.timestamp,
         nonce |-> chain[i].header.nonce,
         difficulty |-> chain[i].header.difficulty,
         hash |-> chain[i].hash,
         index |-> IF with_index THEN chain[i].index ELSE NoKey]]

\* GoodChain(n) with the last block's hash replaced by a hex string without
\* leading zeros: the block misses its difficulty
BadPowChain(n) ==
    [GoodChain(n) EXCEPT ![n].hash = JunkHash(0, 1),
                         ![n].header.difficulty = MaxDifficulty + 1]

\* one block whose hash is "0" * 64 and whose difficulty is 64
ForgedGenesis ==
    <<[GoodChain(1)[1] EXCEPT !.hash = ZeroHash, !.header.difficulty = 64]>>

(***************************************************************************)
(* What a peer answers to the three requests of resolve_conflicts.         *)
(*   s1, s2, s3: "ok"       status 200 and a JSON body with the key read   *)
(*               "status"   a status other than 200                        *)
(*               "reqerr"   httpx.RequestError (unreachable, timeout)      *)
(*               "notjson"  status 200, body not JSON (JSONDecodeError)    *)
(*               "nokey"    status 200, JSON without the key read          *)
(*               "badentry" status 200, the list's entries lack fields     *)
(***************************************************************************)
Answer(s1, len, s2, headers, s3, chain) ==
    [s1 |-> s1, length |-> len, s2 |-> s2, headers |-> headers,
     s3 |-> s3, chain |-> chain]

Failing(s1) == Answer(s1, 0, "ok", <<>>, "ok", <<>>)

Honest(n) ==
    Answer("ok", n, "ok", HeadersOf(GoodChain(n), FALSE), "ok", GoodChain(n))

Answers ==
    {Failing(s) : s \in {"reqerr", "status", "notjson", "nokey"}}
    \cup {Honest(n) : n \in 1..MaxPeerLen}
    \cup {\* reports more blocks than it serves
          Answer("ok", MaxPeerLen + 1, "ok", HeadersOf(GoodChain(1), FALSE),
                 "ok", GoodChain(1)),
          \* valid headers, a body whose last block misses its difficulty
          Answer("ok", MaxPeerLen, "ok", HeadersOf(GoodChain(MaxPeerLen), FALSE),
                 "ok", BadPowChain(MaxPeerLen)),
          \* valid headers, a body that valid_chain accepts and nobody can mine
          Answer("ok", MaxPeerLen, "ok", HeadersOf(GoodChain(1), FALSE),
                 "ok", ForgedGenesis)}
    \cup {\* headers and body of a chain whose last block misses its difficulty
          Answer("ok", MaxPeerLen, "ok", HeadersOf(BadPowChain(MaxPeerLen), w),
                 "ok", BadPowChain(MaxPeerLen)) : w \in BOOLEAN}
    \cup {Answer("ok", MaxPeerLen, s, HeadersOf(GoodChain(MaxPeerLen), FALSE),
                 "ok", GoodChain(MaxPeerLen))
            : s \in {"status", "nokey"}}
    \cup {Answer("ok", MaxPeerLen, "ok", HeadersOf(GoodChain(MaxPeerLen), FALSE),
                 s, GoodChain(MaxPeerLen))
            : s \in {"reqerr", "badentry"}}

\* a netloc nobody listens on refuses the connection
AnswerOf(n) == IF n \in DOMAIN peers THEN peers[n] ELSE Failing("reqerr")

(***************************************************************************)
(* The storage the Blockchain is given.  get_chain_length and              *)
(* replace_chain are called by resolve_conflicts and defined nowhere in    *)
(* db/storage.py: they follow the storage contract of the specification.   *)
(***************************************************************************)
get_chain_length == Len(stored)

\* replace_chain without a transaction: a write that fails leaves the rows
\* written before the failure
replace_chain_Partial(blocks, fails) ==
    IF fails THEN SubSeq(blocks, 1, 1) ELSE blocks

\* the rows after replace_chain(blocks): the replacement is atomic, a write
\* that fails partway leaves the rows as they were
replace_chain(blocks, fails) == IF fails THEN stored ELSE blocks

\* the block _block_from_db (storage.py:232-261) builds from the row
\* save_block writes (lines 33-42): the row has no column for the header's
\* merkle_root, Block(...) computes it from the transactions
StoredBlock(block) ==
    [block EXCEPT !.header.merkle_root = compute_merkle_root(block.transactions)]

\* HashStored with no unique constraint on blocks.hash
HashStored_Never(block) == FALSE

\* blocks.hash is unique (model.py:14): the flush of line 45 raises
\* IntegrityError when a row with the block's hash exists
HashStored(block) == \E i \in 1..Len(stored) : stored[i].hash = block.hash

\* transactions.tx_hash is unique (model.py:31): the commit of line 60
\* raises IntegrityError when a transaction of the block has the hash of a
\* stored transaction or of another transaction of the block
TxClash(block) ==
    \/ \E j \in 1..Len(block.transactions) :
          \E i \in 1..Len(stored) : \E k \in 1..Len(stored[i].transactions) :
             Transaction_calculate_hash(block.transactions[j])
                 = Transaction_calculate_hash(stored[i].transactions[k])
    \/ \E j, k \in 1..Len(block.transactions) :
          /\ j # k
          /\ Transaction_calculate_hash(block.transactions[j])
                 = Transaction_calculate_hash(block.transactions[k])

\* what save_block returns (lines 61 and 63-65)
save_block_returns(block) == ~HashStored(block) /\ ~TxClash(block)

\* save_block writing over the stored row of the same index
save_block_Upsert(block) ==
    IF \E i \in 1..Len(stored) : stored[i].index = block.index
    THEN [i \in 1..Len(stored) |->
             IF stored[i].index = block.index THEN StoredBlock(block)
             ELSE stored[i]]
    ELSE Append(stored, StoredBlock(block))

\* the rows after save_block(block): IntegrityError rolls everything back
save_block(block) ==
    IF save_block_returns(block) THEN Append(stored, StoredBlock(block))
    ELSE stored

\* the rows in the order of "ORDER BY index" (storage.py:138); rows of equal
\* index keep the order they were inserted in
RECURSIVE SortByIndex(_)
SortByIndex(rows) ==
    IF rows = <<>> THEN <<>>
    ELSE LET least == CHOOSE i \in 1..Len(rows) :
                          \A j \in 1..Len(rows) :
                              \/ rows[i].index < rows[j].index
                              \/ (rows[i].index = rows[j].index /\ i <= j)
         IN <<rows[least]>>
              \o SortByIndex([k \in 1..(Len(rows) - 1) |->
                                 IF k < least THEN rows[k] ELSE rows[k + 1]])

\* get_all_blocks (storage.py:130-139)
get_all_blocks == SortByIndex(stored)

\* the largest difficulty for which mine_block finds a nonce
Mineable(d) == d <= MaxDifficulty

Init ==
    /\ cand = <<>>
    /\ orig = <<>>
    /\ phase = "build"
    /\ verdict = FALSE
    /\ nodes = {}
    /\ stored \in {LocalChain(n) : n \in 0..MaxLocal}
    /\ self_attrs = {}
    /\ peers \in [Peers -> Answers]
    /\ CallIdle
    /\ AuxIdle

(***************************************************************************)
(* Blockchain.register_node (blockchain_core.py:16-27).                    *)
(***************************************************************************)
RegisteredNetloc(address) ==
    IF UrlNetloc(address) # "" THEN UrlNetloc(address) ELSE UrlPath(address)

\* register_node with a known location taken out of the registry
register_node_Toggle(address) ==
    IF RegisteredNetloc(address) = "" THEN nodes
    ELSE IF RegisteredNetloc(address) \in nodes
    THEN nodes \ {RegisteredNetloc(address)}
    ELSE nodes \cup {RegisteredNetloc(address)}

\* register_node with the registry overwritten by the new location
register_node_Overwrite(address) ==
    IF RegisteredNetloc(address) # "" THEN {RegisteredNetloc(address)}
    ELSE nodes

\* the registry after register_node(address); ValueError leaves it as it is
register_node(address) ==
    IF RegisteredNetloc(address) # ""
    THEN nodes \cup {RegisteredNetloc(address)}
    ELSE nodes

\* POST /nodes/register handled by the event loop: before or after a
\* resolve_conflicts call, or while the call is suspended in an await (the
\* call runs from line 115 to its first request without giving control up)
RegisterNode ==
    /\ pc # "loop"
    /\ \E address \in Addresses : nodes' = register_node(address)
    /\ UNCHANGED <<stored, self_attrs, peers, varsCall, varsChain, varsAux>>

(***************************************************************************)
(* Blockchain.resolve_conflicts (blockchain_core.py:113-178), one action   *)
(* per stretch of code between two awaits.                                 *)
(***************************************************************************)
\* an exception leaves the call: pc, ret
Raise(exc) == pc' = "done" /\ ret' = exc

\* lines 115-121: the locals, the client, the iterator over self.nodes
ResolveStart ==
    /\ pc = "idle"
    /\ max_length' = get_chain_length
    /\ new_chain' = <<>>
    /\ si_used' = Cardinality(nodes)
    /\ visited' = {}
    /\ node' = ""
    /\ length' = 0
    /\ ret' = "none"
    /\ start_len' = get_chain_length
    /\ start_stored' = stored
    /\ start_nodes' = nodes
    /\ polled' = {}
    /\ replaced' = FALSE
    /\ log' = <<>>
    /\ pc' = "loop"
    /\ UNCHANGED <<nodes, stored, self_attrs, peers, varsChain, varsAux>>

\* the log with one more request
Sent(n, req) == Append(log, [node |-> n, req |-> req, best |-> max_length])

\* line 121: the set iterator's next(); it raises RuntimeError when the set
\* has changed size since the iterator was made.  Lines 122-127: the node's
\* own address is skipped, any other node is sent the first request.
LoopNext ==
    /\ pc = "loop"
    /\ IF Cardinality(nodes) # si_used
       THEN /\ Raise("RuntimeError")
            /\ UNCHANGED <<node, visited, polled, log>>
       ELSE IF nodes \subseteq visited
       THEN /\ pc' = "adopt"
            /\ node' = ""
            /\ UNCHANGED <<ret, visited, polled, log>>
       ELSE \E n \in nodes \ visited :
               /\ visited' = visited \cup {n}
               /\ IF n = MyAddress
                  THEN /\ pc' = "loop"
                       /\ node' = ""
                       /\ UNCHANGED <<polled, log>>
                  ELSE /\ pc' = "await_len"
                       /\ node' = n
                       /\ polled' = polled \cup {n}
                       /\ log' = Sent(n, "len")
               /\ UNCHANGED ret
    /\ UNCHANGED <<max_length, new_chain, length, si_used, start_len,
                   start_stored, start_nodes, replaced>>
    /\ UNCHANGED <<nodes, stored, self_attrs, peers, varsChain, varsAux>>

\* the except clause of lines 165-167 catches these two and continues
Caught(s) == s \in {"reqerr", "notjson"}

\* line 136 with >= for >
LongerThanBest_OrEqual(len) == len >= max_length

\* line 136: if length > max_length
LongerThanBest(len) == len > max_length

\* lines 127-138: the answer to /chain/headers?page_size=1
RespLen ==
    /\ pc = "await_len"
    /\ LET a == AnswerOf(node) IN
         IF Caught(a.s1) \/ a.s1 = "status"
         THEN pc' = "loop" /\ UNCHANGED <<ret, length, log>>
         ELSE IF a.s1 # "ok"
         THEN Raise("KeyError") /\ UNCHANGED <<length, log>>
         ELSE /\ length' = a.length
              /\ IF LongerThanBest(a.length)
                 THEN pc' = "await_hdr" /\ log' = Sent(node, "hdr")
                 ELSE pc' = "loop" /\ UNCHANGED log
              /\ UNCHANGED ret
    /\ UNCHANGED <<max_length, new_chain, node, visited, si_used, start_len,
                   start_stored, start_nodes, polled, replaced>>
    /\ UNCHANGED <<nodes, stored, self_attrs, peers, varsChain, varsAux>>

\* line 141 with the result of valid_chain_headers ignored
HeadersAccepted_Always(result) == TRUE

\* line 141: if self.valid_chain_headers(headers_data)
HeadersAccepted(result) == result = "True"

\* lines 138-147 and 160-164: the answer to /chain/headers?page_size=length
RespHdr ==
    /\ pc = "await_hdr"
    /\ LET a == AnswerOf(node) IN
         IF Caught(a.s2) \/ a.s2 = "status"
         THEN pc' = "loop" /\ UNCHANGED <<ret, log>>
         ELSE IF a.s2 # "ok"
         THEN Raise("KeyError") /\ UNCHANGED log
         ELSE LET ok == valid_chain_headers(a.headers) IN
              IF ok = "KeyError" THEN Raise("KeyError") /\ UNCHANGED log
              ELSE /\ IF HeadersAccepted(ok)
                      THEN pc' = "await_chain" /\ log' = Sent(node, "chain")
                      ELSE pc' = "loop" /\ UNCHANGED log
                   /\ UNCHANGED ret
    /\ UNCHANGED <<max_length, new_chain, node, length, visited, si_used,
                   start_len, start_stored, start_nodes, polled, replaced>>
    /\ UNCHANGED <<nodes, stored, self_attrs, peers, varsChain, varsAux>>

\* lines 147-159: the answer to /chain?page_size=length
RespChain ==
    /\ pc = "await_chain"
    /\ LET a == AnswerOf(node) IN
         IF Caught(a.s3) \/ a.s3 = "status"
         THEN pc' = "loop" /\ UNCHANGED <<ret, max_length, new_chain>>
         ELSE IF a.s3 # "ok"
         THEN Raise("KeyError") /\ UNCHANGED <<max_length, new_chain>>
         ELSE /\ pc' = "loop"
              /\ UNCHANGED ret
              /\ IF valid_chain(a.chain)
                 THEN max_length' = length /\ new_chain' = a.chain
                 ELSE UNCHANGED <<max_length, new_chain>>
    /\ UNCHANGED <<node, length, visited, si_used, start_len, start_stored,
                   start_nodes, polled, replaced, log>>
    /\ UNCHANGED <<nodes, stored, self_attrs, peers, varsChain, varsAux>>

\* lines 169-178.  Line 174 reads the stored blocks back with
\* storage.get_all_blocks (storage.py:130-139), which rebuilds every block
\* with Block(...) and so mines it again (storage.py:248-253), and hands
\* each to from_db_model, which reads block.previous_hash (api_core.py:50):
\* a node_core.Block has no such attribute.
Adopt ==
    /\ pc = "adopt"
    /\ IF new_chain # <<>>
       THEN /\ stored' = replace_chain(new_chain, FALSE)
            /\ replaced' = TRUE
            /\ self_attrs' = self_attrs \cup {"current_transactions"}
            /\ IF \A i \in 1..Len(new_chain) : Mineable(new_chain[i].header.difficulty)
               THEN Raise("AttributeError")
               ELSE pc' = "hung" /\ UNCHANGED ret
       ELSE /\ pc' = "done"
            /\ ret' = "False"
            /\ UNCHANGED <<stored, replaced, self_attrs>>
    /\ UNCHANGED <<max_length, new_chain, node, length, visited, si_used,
                   start_len, start_stored, start_nodes, polled, log>>
    /\ UNCHANGED <<nodes, peers, varsChain, varsAux>>

\* the caller has the result or the exception; the call is over
ResolveReturn ==
    /\ pc = "done"
    /\ pc' = "idle"
    /\ max_length' = 0
    /\ new_chain' = <<>>
    /\ node' = ""
    /\ length' = 0
    /\ visited' = {}
    /\ si_used' = 0
    /\ ret' = "none"
    /\ start_len' = 0
    /\ start_stored' = <<>>
    /\ start_nodes' = {}
    /\ polled' = {}
    /\ replaced' = FALSE
    /\ log' = <<>>
    /\ UNCHANGED <<nodes, stored, self_attrs, peers, varsChain, varsAux>>

\* a block mined on top of the local chain is saved (storage.py:24-68) by
\* another handler of the event loop while resolve_conflicts waits for a
\* peer's answer (the awaits of lines 127, 138 and 147); resolve_conflicts
\* holds no lock
MineCompletes ==
    /\ pc \in {"await_len", "await_hdr", "await_chain"}
    /\ Len(stored) <= MaxLocal
    /\ LET previous_hash == IF stored = <<>> THEN ZeroHash
                            ELSE get_all_blocks[Len(stored)].hash
           \* a pending transaction no stored block holds
           transactions == IF stored = <<>> THEN <<T2>> ELSE <<T1>>
           block == NewBlock(Len(stored), transactions, previous_hash,
                             MaxDifficulty, 1)
       IN /\ save_block_returns(block)
          /\ stored' = save_block(block)
    /\ UNCHANGED <<nodes, self_attrs, peers, varsCall, varsChain, varsAux>>

Next ==
    \/ RegisterNode
    \/ MineCompletes
    \/ ResolveStart
    \/ LoopNext
    \/ RespLen
    \/ RespHdr
    \/ RespChain
    \/ Adopt
    \/ ResolveReturn

Spec == Init /\ [][Next]_vars

\* The running call makes progress: every request of the client is answered
\* or ends in httpx.TimeoutException, a RequestError, after the client's
\* timeout of 10.0 seconds (line 120), and the event loop then resumes the
\* coroutine.  Nothing obliges a call to start, a node to be registered or a
\* block to be mined.
Progress ==
    /\ WF_vars(LoopNext)
    /\ WF_vars(RespLen)
    /\ WF_vars(RespHdr)
    /\ WF_vars(RespChain)
    /\ WF_vars(Adopt)
    /\ WF_vars(ResolveReturn)

SpecLive == Init /\ [][Next]_vars /\ Progress

(***************************************************************************)
(* SpecRegistry: POST /nodes/register (network_handling.py:19-37) calling  *)
(* Blockchain.register_node, one request after the other.                  *)
(***************************************************************************)
\* the addresses the route is called with
RegistryAddresses ==
    Addresses \cup {"http://10.0.0.1:8001/chain", "http://", "http:///chain",
                    "localhost:8001", "http://localhost:8001"}

InitRegistry ==
    /\ cand = <<>>
    /\ orig = <<>>
    /\ phase = "build"
    /\ verdict = FALSE
    /\ nodes = {}
    /\ stored = <<>>
    /\ self_attrs = {}
    /\ peers = <<>>
    /\ CallIdle
    /\ AuxIdle

\* the route: an empty address is answered 400 (lines 29-30); otherwise
\* register_node runs (line 32) and either raises ValueError, which nothing
\* in the route catches, or the route answers 201 (lines 34-37)
RegisterRequest ==
    /\ \E address \in RegistryAddresses :
          /\ reg_address' = address
          /\ reg_known' = (RegisteredNetloc(address) \in nodes)
          /\ IF address = ""
             THEN reg_ret' = "400" /\ nodes' = nodes
             ELSE /\ nodes' = register_node(address)
                  /\ reg_ret' = IF RegisteredNetloc(address) = ""
                                THEN "ValueError" ELSE "201"
    /\ UNCHANGED <<stored, self_attrs, peers, varsCall, varsChain, varsBlock,
                   varsSave, varsReplace, varsService>>

NextRegistry == RegisterRequest

SpecRegistry == InitRegistry /\ [][NextRegistry]_vars

(***************************************************************************)
(* SpecStore: BlockchainStorage (db/storage.py) under save_block calls and *)
(* chain replacements.  stored holds the rows of the blocks table in the   *)
(* order they were inserted, each as the block get_all_blocks builds from  *)
(* it.  The transactions table holds one row per transaction of a stored   *)
(* block: save_block commits a block and its transactions together or not  *)
(* at all.                                                                 *)
(***************************************************************************)
\* the transaction lists of the blocks handed to save_block
StoreTxLists == {<<>>, <<T1>>, <<T2>>, <<T1, T1>>}

\* the previous_hash a block handed to save_block was mined against: the
\* hash of the last block of the chain, or "0" * 64
StorePrevHashes ==
    {ZeroHash} \cup {get_all_blocks[i].hash : i \in {Len(stored)} \ {0}}

InitStore ==
    /\ cand = <<>>
    /\ orig = <<>>
    /\ phase = "build"
    /\ verdict = FALSE
    /\ nodes = {}
    /\ stored = <<>>
    /\ self_attrs = {}
    /\ peers = <<>>
    /\ CallIdle
    /\ AuxIdle

\* save_block(block) for a mined block (storage.py:24-68)
SaveBlock ==
    /\ \E index \in {0, Len(stored)}, transactions \in StoreTxLists,
          previous_hash \in StorePrevHashes :
          LET block == NewBlock(index, transactions, previous_hash,
                                MaxDifficulty, 1)
          IN /\ Len(save_block(block)) <= MaxStore
             /\ sv_block' = block
             /\ sv_before' = stored
             /\ sv_ret' = IF save_block_returns(block) THEN "True" ELSE "False"
             /\ stored' = save_block(block)
    /\ rp_blocks' = <<>>
    /\ rp_before' = <<>>
    /\ rp_ret' = "none"
    /\ UNCHANGED <<nodes, self_attrs, peers, varsCall, varsChain, varsBlock,
                   varsReg, varsService>>

\* the chain is replaced by a chain valid_chain accepted
\* (blockchain_core.py:169-171), or the write fails partway
ReplaceChain ==
    /\ \E n \in 1..MaxStore, fails \in BOOLEAN :
          /\ valid_chain(GoodChain(n))
          /\ rp_blocks' = GoodChain(n)
          /\ rp_before' = stored
          /\ rp_ret' = IF fails THEN "failed" ELSE "done"
          /\ stored' = replace_chain(GoodChain(n), fails)
    /\ sv_block' = <<>>
    /\ sv_before' = <<>>
    /\ sv_ret' = "none"
    /\ UNCHANGED <<nodes, self_attrs, peers, varsCall, varsChain, varsBlock,
                   varsReg, varsService>>

NextStore ==
    \/ SaveBlock
    \/ ReplaceChain

SpecStore == InitStore /\ [][NextStore]_vars

(***************************************************************************)
(* SpecBlock: the functions of node_core.py, each applied to one input.    *)
(***************************************************************************)
T3 == Tx(1, 1, 5, 2)

Txs == {T1, T2, T3}

\* the lists of at most n transactions
TxListsUpTo(n) == UNION {[1..k -> Txs] : k \in 0..n}

\* what time.time() returns
Clock == {1, 2}

\* the headers mining is started on
MiningHeaders ==
    {BlockHeader(p, m, t, n, d) :
        p \in ForgedHashes \cup {sha256(<<>>)},
        m \in {compute_merkle_root(<<>>), compute_merkle_root(<<T1>>)},
        t \in Clock \cup {10},
        n \in 0..MaxNonce,
        d \in Difficulties}

\* Block.is_valid (lines 136-141)
Block_is_valid(block) ==
    /\ block.hash = BlockHeader_calculate_hash(block.header)
    /\ StartsWithZeros(block.hash, block.header.difficulty)

\* Block.to_dict (lines 143-151) with Transaction.to_dict and
\* BlockHeader.to_dict; to_json writes this dict with json.dumps
Block_to_dict(block) ==
    [index |-> block.index,
     hash |-> block.hash,
     merkle_root |-> block.merkle_root,
     header |-> [previous_hash |-> block.header.previous_hash,
                 merkle_root |-> block.header.merkle_root,
                 timestamp |-> block.header.timestamp,
                 nonce |-> block.header.nonce,
                 difficulty |-> block.header.difficulty],
     transactions |-> [i \in 1..Len(block.transactions) |->
                          [sender |-> block.transactions[i].sender,
                           receiver |-> block.transactions[i].receiver,
                           amount |-> block.transactions[i].amount,
                           timestamp |-> block.transactions[i].timestamp]]]

\* Block_from_json without lines 175-177: the rebuilt header keeps the
\* timestamp and the nonce of its own mining
Block_from_json_NotRestored(data, now) ==
    LET transactions == [i \in 1..Len(data.transactions) |->
                            Transaction_init(data.transactions[i].sender,
                                             data.transactions[i].receiver,
                                             data.transactions[i].amount,
                                             data.transactions[i].timestamp, now)]
        block == NewBlock(data.index, transactions, data.header.previous_hash,
                          data.header.difficulty, now)
    IN [block EXCEPT !.merkle_root = data.merkle_root]

\* Block.from_json (lines 157-179) on the dict json.loads gives: the
\* transactions are rebuilt, a Block is constructed (and so mined, at time
\* now), then merkle_root, header.timestamp, header.nonce and hash are set
\* from the data
Block_from_json(data, now) ==
    LET transactions == [i \in 1..Len(data.transactions) |->
                            Transaction_init(data.transactions[i].sender,
                                             data.transactions[i].receiver,
                                             data.transactions[i].amount,
                                             data.transactions[i].timestamp, now)]
        block == NewBlock(data.index, transactions, data.header.previous_hash,
                          data.header.difficulty, now)
    IN [block EXCEPT !.merkle_root = data.merkle_root,
                     !.header.timestamp = data.header.timestamp,
                     !.header.nonce = data.header.nonce,
                     !.hash = data.hash]

\* the lists of Transaction objects a Block is constructed with: every
\* object went through Transaction.__init__
BlockTxLists ==
    {<<>>,
     <<Transaction_init(1, 2, 5, 0, 1)>>,
     <<Transaction_init(1, 2, 5, 0, 2), Transaction_init(2, 1, 3, 1, 2)>>,
     <<T1, T2, T3>>}

InitBlock ==
    /\ cand = <<>>
    /\ orig = <<>>
    /\ phase = "build"
    /\ verdict = FALSE
    /\ nodes = {}
    /\ stored = <<>>
    /\ self_attrs = {}
    /\ peers = <<>>
    /\ CallIdle
    /\ AuxIdle

\* mine_block runs on a header
Mine ==
    /\ fn = "none"
    /\ \E h \in MiningHeaders :
          /\ fn' = "mine"
          /\ fn_in' = h
          /\ fn_out' = [hash |-> mine_block_return(h), header |-> mine_block(h)]
    /\ UNCHANGED <<varsChain, varsNode, varsReg, varsSave, varsReplace,
                   varsService>>

\* Block(index, transactions, previous_hash, difficulty) is constructed
Construct ==
    /\ fn = "none"
    /\ \E index \in 0..1, transactions \in BlockTxLists,
          previous_hash \in ForgedHashes, difficulty \in Difficulties,
          now \in Clock :
          /\ fn' = "block"
          /\ fn_in' = <<index, transactions, previous_hash, difficulty, now>>
          /\ fn_out' = NewBlock(index, transactions, previous_hash, difficulty, now)
    /\ UNCHANGED <<varsChain, varsNode, varsReg, varsSave, varsReplace,
                   varsService>>

\* compute_merkle_root runs on two lists of transactions
Merkle ==
    /\ fn = "none"
    /\ \E l1, l2 \in TxListsUpTo(MaxTxs) :
          /\ fn' = "merkle"
          /\ fn_in' = <<l1, l2>>
          /\ fn_out' = <<compute_merkle_root(l1), compute_merkle_root(l2)>>
    /\ UNCHANGED <<varsChain, varsNode, varsReg, varsSave, varsReplace,
                   varsService>>

\* a constructed Block is written with to_json and read with from_json
RoundTrip ==
    /\ fn = "block"
    /\ \E now \in Clock :
          /\ fn' = "roundtrip"
          /\ fn_in' = fn_out
          /\ fn_out' = Block_from_json(Block_to_dict(fn_out), now)
    /\ UNCHANGED <<varsChain, varsNode, varsReg, varsSave, varsReplace,
                   varsService>>

NextBlock ==
    \/ Mine
    \/ Construct
    \/ Merkle
    \/ RoundTrip

SpecBlock == InitBlock /\ [][NextBlock]_vars

(***************************************************************************)
(* SpecService: the admin application.  routes/admin_handling.py makes one *)
(* MiningService and one PoolService (routes/utils.py); its lifespan       *)
(* starts the pool service, and at shutdown closes the storage and stops   *)
(* the mining service.  POST /admin/mining starts and stops the mining     *)
(* service, POST /admin/logout stops it.  Everything runs on one asyncio   *)
(* event loop: a coroutine runs alone from one await to the next, so each  *)
(* action is the code between two awaits.  task.cancel() marks the task;   *)
(* the task gets CancelledError where it is suspended, the next time the   *)
(* event loop runs it.                                                     *)
(***************************************************************************)
TaskIds == 1..MaxTasks

Ev(kind, task, res) == [kind |-> kind, task |-> task, res |-> res]

\* the tasks made so far; the next one gets the next number
Created == Cardinality({t \in TaskIds : tasks[t].st # "none"})

\* the task has ended: its coroutine returned or CancelledError left it
Finished(t) == tasks[t].st \in {"done", "cancelled"}

\* the task can still send a request: it was made, has not ended and
\* cancel() was not called on it
Active(t) == tasks[t].st \in {"new", "get", "post", "sleep"} /\ ~tasks[t].cancel

\* what GET /transactions/pending may bring: status 200 with a list of
\* transactions, status 200 with an empty list, another status, an
\* exception (no connection, timeout, a body that is not JSON)
QueryResults == {"200_txs", "200_empty", "500", "exception"}

\* what POST /blocks/mine may bring
MineResults == {"200", "500", "exception"}

\* the part of the process not modelled here stays as it is
ServiceFrame ==
    UNCHANGED <<varsChain, varsNode, varsBlock, varsReg, varsSave,
                varsReplace>>

InitService ==
    /\ cand = <<>>
    /\ orig = <<>>
    /\ phase = "build"
    /\ verdict = FALSE
    /\ nodes = {}
    /\ stored = <<>>
    /\ self_attrs = {}
    /\ peers = <<>>
    /\ CallIdle
    /\ AuxIdle

\* start() making a task whether or not the service is running
start_makes_task_Always == TRUE

\* MiningService.start, line 116: "if not self.is_running"
start_makes_task == ~mining_is_running

\* _mining_loop posting to /blocks/mine after every answer of status 200
mine_after_Any200(res) == res \in {"200_txs", "200_empty"}

\* _mining_loop, lines 145-149: the mine request is sent when the status
\* is 200 and the "transactions" of the body are not empty
mine_after(res) == res = "200_txs"

\* stop() awaits the task when the service runs and its task has not ended
\* (lines 124-129); otherwise it returns without giving control up
stop_awaits == mining_is_running /\ mining_task # 0 /\ ~Finished(mining_task)

\* stop() that clears is_running and leaves the task alone
stop_NoCancel(who) ==
    IF mining_is_running
    THEN /\ mining_is_running' = FALSE
         /\ UNCHANGED <<tasks, stops>>
    ELSE UNCHANGED <<mining_is_running, tasks, stops>>

\* MiningService.stop up to its await (lines 122-129), called by who
stop(who) ==
    IF mining_is_running
    THEN /\ mining_is_running' = FALSE
         /\ IF mining_task # 0 /\ ~Finished(mining_task)
            THEN /\ tasks' = [tasks EXCEPT ![mining_task].cancel = TRUE]
                 /\ stops' = stops \cup {[task |-> mining_task,
                                          started |-> FALSE, who |-> who]}
            ELSE UNCHANGED <<tasks, stops>>
    ELSE UNCHANGED <<mining_is_running, tasks, stops>>

\* the lifespan up to its yield (admin_handling.py:19-21) with
\* PoolService.start (utils.py:174-180)
Startup ==
    /\ life = "init"
    /\ life' = "serving"
    /\ pool_is_running' = TRUE
    /\ pool_task' = "new"
    /\ event' = Ev("startup", 0, "none")
    /\ UNCHANGED <<closed, mining_is_running, mining_task, tasks, stops,
                   stopped, stopped_clean, used_closed>>
    /\ ServiceFrame

\* POST /admin/mining with action "start" (admin_handling.py:103-106):
\* MiningService.start (utils.py:114-120), which has no await
MiningStart ==
    /\ life = "serving"
    /\ IF start_makes_task
       THEN /\ Created < MaxTasks
            /\ mining_is_running' = TRUE
            /\ mining_task' = Created + 1
            /\ tasks' = [tasks EXCEPT ![Created + 1] =
                                          [st |-> "new", cancel |-> FALSE]]
            /\ event' = Ev("start", Created + 1, "made")
       ELSE /\ event' = Ev("start", 0, "noop")
            /\ UNCHANGED <<mining_is_running, mining_task, tasks>>
    /\ stops' = {[s EXCEPT !.started = TRUE] : s \in stops}
    /\ stopped' = FALSE
    /\ stopped_clean' = FALSE
    /\ UNCHANGED <<life, closed, pool_is_running, pool_task, used_closed>>
    /\ ServiceFrame

\* POST /admin/mining with action "stop" (admin_handling.py:107-110) and
\* POST /admin/logout (line 44): MiningService.stop up to its await, or to
\* its end when it does not await
MiningStop ==
    /\ life = "serving"
    /\ stop("admin")
    /\ IF stop_awaits
       THEN /\ event' = Ev("stop", mining_task, "awaits")
            /\ UNCHANGED <<stopped, stopped_clean>>
       ELSE /\ event' = Ev("stop", 0, "returned")
            /\ stopped' = TRUE
            /\ stopped_clean' = TRUE
    /\ UNCHANGED <<life, closed, mining_task, pool_is_running, pool_task,
                   used_closed>>
    /\ ServiceFrame

\* stop() from "await self._task" to its end (lines 129-132): the awaited
\* task has ended; the lifespan's stop() ends the lifespan
StopResume ==
    /\ \E s \in stops :
          /\ Finished(s.task)
          /\ stops' = stops \ {s}
          /\ life' = IF s.who = "lifespan" THEN "down" ELSE life
          /\ stopped' = TRUE
          /\ stopped_clean' = IF s.started THEN stopped_clean ELSE TRUE
          /\ event' = Ev("stop_done", s.task,
                         IF s.started THEN "started" ELSE "clean")
    /\ UNCHANGED <<closed, mining_is_running, mining_task, tasks,
                   pool_is_running, pool_task, used_closed>>
    /\ ServiceFrame

\* _mining_loop (utils.py:134-162) of task t from one await to the next;
\* "except Exception" (line 158) keeps every failure of a request inside
\* the cycle
MiningLoopStep(t) ==
    /\ life # "down"
    /\ Active(t)
    /\ \/ /\ tasks[t].st \in {"new", "sleep"}
          /\ IF mining_is_running
             THEN /\ tasks' = [tasks EXCEPT ![t].st = "get"]
                  /\ event' = Ev("query", t, "sent")
             ELSE /\ tasks' = [tasks EXCEPT ![t].st = "done"]
                  /\ event' = Ev("ended", t, "none")
       \/ /\ tasks[t].st = "get"
          /\ \E res \in QueryResults :
                /\ tasks' = [tasks EXCEPT ![t].st =
                                IF mine_after(res) THEN "post" ELSE "sleep"]
                /\ event' = Ev("answer", t, res)
       \/ /\ tasks[t].st = "post"
          /\ \E res \in MineResults :
                /\ tasks' = [tasks EXCEPT ![t].st = "sleep"]
                /\ event' = Ev("mined", t, res)
    /\ UNCHANGED <<life, closed, mining_is_running, mining_task, stops,
                   stopped, stopped_clean, pool_is_running, pool_task,
                   used_closed>>
    /\ ServiceFrame

\* the event loop runs a task cancel() was called on: CancelledError is
\* raised where the task is suspended; it is no Exception, line 158 does
\* not catch it, and the task ends
TaskCancelled(t) ==
    /\ life # "down"
    /\ tasks[t].cancel
    /\ tasks[t].st \in {"new", "get", "post", "sleep"}
    /\ tasks' = [tasks EXCEPT ![t].st = "cancelled"]
    /\ event' = Ev("cancelled", t, "none")
    /\ UNCHANGED <<life, closed, mining_is_running, mining_task, stops,
                   stopped, stopped_clean, pool_is_running, pool_task,
                   used_closed>>
    /\ ServiceFrame

\* _pool_loop (utils.py:194-208) from one await to the next, with
\* update_balances (utils.py:91-101): storage.get_all_users(), then for a
\* user the await of get_balance and storage.update_user_balance; an
\* exception ends the cycle, not the loop
PoolLoopStep ==
    /\ life \in {"serving", "closing"}
    /\ \/ /\ pool_task \in {"new", "sleep"}
          /\ IF pool_is_running
             THEN /\ used_closed' = (used_closed \/ closed)
                  /\ \E users \in BOOLEAN :
                        pool_task' = IF users THEN "balance" ELSE "sleep"
             ELSE /\ pool_task' = "done"
                  /\ UNCHANGED used_closed
       \/ /\ pool_task = "balance"
          /\ \E answered \in BOOLEAN :
                used_closed' = (used_closed \/ (answered /\ closed))
          /\ pool_task' = "sleep"
    /\ event' = Ev("pool", 0, "none")
    /\ UNCHANGED <<life, closed, mining_is_running, mining_task, tasks, stops,
                   stopped, stopped_clean, pool_is_running>>
    /\ ServiceFrame

\* the lifespan after its yield (admin_handling.py:22-23): storage.close(),
\* then mining_service.stop() up to its await or to its end
Shutdown ==
    /\ life = "serving"
    /\ closed' = TRUE
    /\ stop("lifespan")
    /\ IF stop_awaits
       THEN /\ life' = "closing"
            /\ UNCHANGED <<stopped, stopped_clean>>
       ELSE /\ life' = "down"
            /\ stopped' = TRUE
            /\ stopped_clean' = TRUE
    /\ event' = Ev("shutdown", 0, "none")
    /\ UNCHANGED <<mining_task, pool_is_running, pool_task, used_closed>>
    /\ ServiceFrame

NextService ==
    \/ Startup
    \/ MiningStart
    \/ MiningStop
    \/ StopResume
    \/ \E t \in TaskIds : MiningLoopStep(t)
    \/ \E t \in TaskIds : TaskCancelled(t)
    \/ PoolLoopStep
    \/ Shutdown

SpecService == InitService /\ [][NextService]_vars

\* the event loop runs every task that is ready: a request is answered or
\* times out, a sleep ends, a cancelled task is resumed
ProgressService ==
    /\ \A t \in TaskIds : WF_vars(MiningLoopStep(t))
    /\ \A t \in TaskIds : WF_vars(TaskCancelled(t))
    /\ WF_vars(StopResume)

SpecServiceLive == InitService /\ [][NextService]_vars /\ ProgressService

(***************************************************************************)
(* Claims about valid_chain, checked under SpecChain.                      *)
(***************************************************************************)
Checked == phase = "checked"

\* the hash BlockHeader.calculate_hash gives for the block's header fields
SelfConsistent(block) ==
    /\ block.hash = BlockHeader_calculate_hash(block.header)
    /\ block.header.merkle_root = block.merkle_root
    /\ PowOk(block)

\* C5: valid_chain returns False for every chain in which some block after
\* the first has header.previous_hash different from the hash of the block
\* before it, whatever else holds of the chain.
C5_LinkageRejected ==
    (Checked /\ \E i \in 2..Len(cand) :
                    cand[i].header.previous_hash # cand[i - 1].hash)
        => verdict = FALSE

\* C5 witness: a checked chain whose only defect is one broken link; every
\* block's hash is the hash of its own header and meets its difficulty.
C5_Witness ==
    /\ Checked
    /\ verdict = FALSE
    /\ \A j \in 1..Len(cand) : SelfConsistent(cand[j])
    /\ \E i \in 2..Len(cand) : cand[i].header.previous_hash # cand[i - 1].hash

\* C6 (as claimed): valid_chain returns False for every chain in which any
\* block, the first included, has a declared hash different from the hash
\* recomputed from its header fields.
C6_HashMismatchRejected ==
    (Checked /\ \E i \in 1..Len(cand) :
                    cand[i].hash # BlockHeader_calculate_hash(cand[i].header))
        => verdict = FALSE

\* C7 (as claimed): valid_chain returns False for every chain containing a
\* block, at any position, whose merkle_root was changed to the root of a
\* mutated transaction list while its hash was left at the old value.
C7_StaleHashRejected ==
    (Checked /\ \E i \in 1..Len(cand) :
                    /\ cand[i].transactions # orig[i].transactions
                    /\ cand[i].merkle_root = compute_merkle_root(cand[i].transactions)
                    /\ cand[i].merkle_root # orig[i].merkle_root
                    /\ cand[i].hash = orig[i].hash)
        => verdict = FALSE

\* C8: valid_chain returns False for the empty list and for every chain in
\* which some block, the first included, has a hash with fewer leading
\* zeros than the difficulty its header declares.
C8_PowRejected ==
    (Checked /\ (\/ cand = <<>>
                 \/ \E i \in 1..Len(cand) :
                        LeadingZeros(cand[i].hash) < cand[i].header.difficulty))
        => verdict = FALSE

\* C8 witness: a checked, rejected chain, linked throughout, every hash the
\* hash of its header, the first block meeting its difficulty, in which a
\* block after the first misses its difficulty.
C8_Witness ==
    /\ Checked
    /\ verdict = FALSE
    /\ \A j \in 1..Len(cand) :
          /\ cand[j].hash = BlockHeader_calculate_hash(cand[j].header)
          /\ cand[j].header.merkle_root = cand[j].merkle_root
    /\ \A j \in 2..Len(cand) : cand[j].header.previous_hash = cand[j - 1].hash
    /\ cand # <<>>
    /\ LeadingZeros(cand[1].hash) >= cand[1].header.difficulty
    /\ \E i \in 2..Len(cand) :
          LeadingZeros(cand[i].hash) < cand[i].header.difficulty

\* C9 (as claimed): every chain valid_chain accepts has, for each block,
\* merkle_root equal to the Merkle root of its transactions and
\* header.merkle_root equal to merkle_root.
C9_MerkleChecked ==
    (Checked /\ verdict = TRUE)
        => \A i \in 1..Len(cand) :
              /\ cand[i].merkle_root = compute_merkle_root(cand[i].transactions)
              /\ cand[i].header.merkle_root = cand[i].merkle_root

\* C10 (as claimed): every chain valid_chain accepts is index-contiguous:
\* each block after the first has the index of the block before it plus 1.
C10_IndexContiguous ==
    (Checked /\ verdict = TRUE)
        => \A i \in 2..Len(cand) : cand[i].index = cand[i - 1].index + 1

(***************************************************************************)
(* Claims about resolve_conflicts, checked under Spec.                     *)
(***************************************************************************)
\* the peer answers all three requests and both validations accept
FullyValid(a) ==
    /\ a.s1 = "ok" /\ a.s2 = "ok" /\ a.s3 = "ok"
    /\ valid_chain_headers(a.headers) = "True"
    /\ valid_chain(a.chain)

PolledAtStart == start_nodes \ {MyAddress}

\* the peer answers each request with status 200 and a body of the expected
\* shape
WellFormed(a) == a.s1 = "ok" /\ a.s2 = "ok" /\ a.s3 = "ok"

\* C1 (as claimed): when some registered peer other than the node reports a
\* length greater than the local length and serves headers and blocks that
\* pass both validations, the call replaces the local chain with a peer's
\* chain and returns True.  Stated for the calls during which nothing is
\* registered and every polled peer serves a chain passing both validations.
C1_ReplacesAndReturnsTrue ==
    (/\ pc = "done"
     /\ nodes = start_nodes
     /\ \A n \in PolledAtStart : FullyValid(AnswerOf(n))
     /\ \E n \in PolledAtStart : AnswerOf(n).length > start_len)
        => /\ ret = "True"
           /\ \E n \in PolledAtStart : stored = AnswerOf(n).chain

\* C2 (as claimed): when every peer that reports a longer chain serves a
\* chain with a block whose hash misses its declared difficulty, the call
\* returns False and the stored chain is what it was.  Stated for the calls
\* during which nothing is registered and every polled peer answers each
\* request with status 200 and a body of the expected shape.
C2_InvalidPowKeepsLocal ==
    (/\ pc = "done"
     /\ nodes = start_nodes
     /\ \A n \in PolledAtStart :
            /\ WellFormed(AnswerOf(n))
            /\ AnswerOf(n).length > start_len
                  => \E i \in 1..Len(AnswerOf(n).chain) :
                         LeadingZeros(AnswerOf(n).chain[i].hash)
                             < AnswerOf(n).chain[i].header.difficulty)
        => /\ ret = "False"
           /\ stored = start_stored

\* C3 (as claimed): whenever the call replaces the local chain, the adopted
\* chain has more blocks than the local chain had at the start, and no
\* polled peer served a fully valid chain with more blocks than it.
C3_LongestValidWins ==
    (pc = "done" /\ replaced)
        => /\ Len(stored) > start_len
           /\ \A n \in polled :
                  FullyValid(AnswerOf(n)) => Len(AnswerOf(n).chain) <= Len(stored)

\* C4 (as claimed): a peer that is unreachable, answers another status or
\* answers a malformed body contributes no candidate; every other peer is
\* still polled and the failure does not leave the call as an exception.
C4_PeerFailureIsolated ==
    (pc = "done" /\ nodes = start_nodes)
        => /\ ret # "KeyError"
           /\ polled = PolledAtStart

(***************************************************************************)
(* Claims about node_core.py, checked under SpecBlock.                     *)
(***************************************************************************)
\* C11: the hash mine_block returns is the hash of the header with the nonce
\* left in it and starts with difficulty zeros, whatever the header and the
\* nonce the search starts at; a freshly constructed Block is valid.
C11_MinedHashMatchesHeader ==
    /\ fn = "mine" =>
          /\ fn_out.hash = BlockHeader_calculate_hash(fn_out.header)
          /\ StartsWithZeros(fn_out.hash, fn_in.difficulty)
    /\ fn = "block" => Block_is_valid(fn_out)

\* C11 witness: mining started on a nonce above 0 that did not meet the
\* difficulty, and ended on a later nonce
C11_Witness ==
    /\ fn = "mine"
    /\ fn_in.nonce > 0
    /\ fn_in.difficulty > 0
    /\ fn_out.header.nonce > fn_in.nonce
    /\ fn_out.hash = BlockHeader_calculate_hash(fn_out.header)

\* the reduction the claim describes, written level by level: the pairs of
\* an even level, hash(a concatenated with b) for each
RECURSIVE RefPairs(_)
RefPairs(level) ==
    IF level = <<>> THEN <<>>
    ELSE <<sha256(HexField(level[1]) \o HexField(level[2]))>>
             \o RefPairs(SubSeq(level, 3, Len(level)))

RECURSIVE RefReduce(_)
RefReduce(level) ==
    IF Len(level) = 1 THEN level[1]
    ELSE IF Len(level) % 2 = 1
         THEN RefReduce(RefPairs(level \o <<level[Len(level)]>>))
         ELSE RefReduce(RefPairs(level))

RefRoot(transactions) ==
    IF transactions = <<>> THEN sha256(<<>>)
    ELSE RefReduce([i \in 1..Len(transactions) |->
                       sha256(TxJson(transactions[i]))])

\* C12: the Merkle root of the empty list is the hash of the empty string;
\* the root of a non-empty list is the result of the reference reduction
\* (leaf hashes in input order, the last hash of an odd level duplicated,
\* each pair replaced by the hash of its concatenation, until one is left).
C12_MerkleIsReferenceReduction ==
    fn = "merkle" =>
        /\ fn_out[1] = RefRoot(fn_in[1])
        /\ fn_in[1] = <<>> => fn_out[1] = sha256(<<>>)
        /\ Len(fn_in[1]) = 1 => fn_out[1] = sha256(TxJson(fn_in[1][1]))

\* C12 witness: the root of a list of three transactions (an odd level whose
\* last hash is duplicated) next to the root of the empty list
C12_Witness ==
    /\ fn = "merkle"
    /\ Len(fn_in[1]) = 3
    /\ fn_in[2] = <<>>
    /\ fn_out[1] = RefRoot(fn_in[1])
    /\ fn_out[2] = sha256(<<>>)

\* C13 (as claimed): any two transaction lists that differ have different
\* Merkle roots, the hash function being collision free.
C13_RootDetectsAlteration ==
    (fn = "merkle" /\ fn_in[1] # fn_in[2]) => fn_out[1] # fn_out[2]

\* l2 holds the elements of l1 in some order
IsReordering(l1, l2) ==
    /\ Len(l1) = Len(l2)
    /\ \E f \in [1..Len(l1) -> 1..Len(l1)] :
          /\ \A i, j \in 1..Len(l1) : i # j => f[i] # f[j]
          /\ \A i \in 1..Len(l1) : l2[i] = l1[f[i]]

PairwiseDistinct(l) == \A i, j \in 1..Len(l) : i # j => l[i] # l[j]

\* C14: the Merkle root is a function of the list (the same list gives the
\* same root), and a list of pairwise distinct transactions put in a
\* different order has a different root.
C14_RootOrderSensitive ==
    fn = "merkle" =>
        /\ fn_in[1] = fn_in[2] => fn_out[1] = fn_out[2]
        /\ (/\ PairwiseDistinct(fn_in[1])
            /\ IsReordering(fn_in[1], fn_in[2])
            /\ fn_in[1] # fn_in[2]) => fn_out[1] # fn_out[2]

\* C14 witness: three pairwise distinct transactions in two orders
C14_Witness ==
    /\ fn = "merkle"
    /\ Len(fn_in[1]) = 3
    /\ PairwiseDistinct(fn_in[1])
    /\ IsReordering(fn_in[1], fn_in[2])
    /\ fn_in[1] # fn_in[2]
    /\ fn_out[1] # fn_out[2]
\* C15: a mined Block written with to_json and read back with from_json has
\* the same hash, the same merkle_root and the same transactions in the same
\* order; its header hashes to that hash, so is_valid still holds.
C15_JsonRoundTrip ==
    fn = "roundtrip" =>
        /\ fn_out.hash = fn_in.hash
        /\ fn_out.merkle_root = fn_in.merkle_root
        /\ fn_out.transactions = fn_in.transactions
        /\ fn_out.header = fn_in.header
        /\ BlockHeader_calculate_hash(fn_out.header) = fn_in.hash
        /\ Block_is_valid(fn_out)

\* C15 witness: the round trip of a block of two transactions that took
\* more than one attempt to mine
C15_Witness ==
    /\ fn = "roundtrip"
    /\ Len(fn_in.transactions) >= 2
    /\ fn_in.header.difficulty > 0
    /\ fn_in.header.nonce > 0
    /\ fn_out.hash = fn_in.hash
    /\ Block_is_valid(fn_out)
(***************************************************************************)
(* Claims about the peer registry, checked under SpecRegistry.             *)
(***************************************************************************)
\* C16: registering an address whose network location is already in the
\* registry leaves the registry unchanged and raises no error; the location
\* is in the registry once.
C16_RegisterIdempotent ==
    [][RegisteredNetloc(reg_address') \in nodes
          => /\ nodes' = nodes
             /\ reg_ret' = "201"
             /\ Cardinality({n \in nodes' : n = RegisteredNetloc(reg_address')}) = 1]_vars

\* C16 witness: a registration of a known location went through while the
\* registry holds another location too
C16_Witness ==
    /\ reg_known
    /\ reg_ret = "201"
    /\ RegisteredNetloc(reg_address) \in nodes
    /\ Cardinality(nodes) >= 2

\* the host:port an address names, "" when it names none
HostPort(address) ==
    CASE address = "http://10.0.0.1:8001" -> "10.0.0.1:8001"
      [] address = "http://10.0.0.1:8001/chain" -> "10.0.0.1:8001"
      [] address = "10.0.0.1:8001" -> "10.0.0.1:8001"
      [] address = "http://10.0.0.2:8001/chain" -> "10.0.0.2:8001"
      [] address = "10.0.0.9:8000" -> "10.0.0.9:8000"
      [] address = "localhost:8001" -> "localhost:8001"
      [] address = "http://localhost:8001" -> "localhost:8001"
      [] OTHER -> ""

\* C17 (as claimed): registering an address from which no network location
\* (host:port) can be extracted fails with an invalid-address error and
\* leaves the registry unchanged.
C17_InvalidAddressRejected ==
    [][(reg_address' # "none" /\ HostPort(reg_address') = "")
          => /\ reg_ret' \in {"400", "ValueError"}
             /\ nodes' = nodes]_vars

\* C30 (as claimed): registering an address that names a host:port, with or
\* without a scheme or a path, leaves that host:port in the registry and
\* adds nothing else, so that all forms of one location make one entry.
C30_DedupByNetloc ==
    [][(reg_address' # "none" /\ HostPort(reg_address') # "")
          => /\ reg_ret' = "201"
             /\ nodes' = nodes \cup {HostPort(reg_address')}]_vars

(***************************************************************************)
(* Claims about the storage, checked under SpecStore.                      *)
(***************************************************************************)
AlreadyStored(block, rows) == \E i \in 1..Len(rows) : rows[i].hash = block.hash

\* C18: save_block called with a block that is already stored returns False
\* and leaves the stored blocks, and with them the stored transactions, as
\* they were; the block is stored once.
C18_SaveExistingIsNoOp ==
    (sv_ret # "none" /\ AlreadyStored(sv_block, sv_before))
        => /\ sv_ret = "False"
           /\ stored = sv_before
           /\ Cardinality({i \in 1..Len(stored) : stored[i].hash = sv_block.hash}) = 1

\* C18 witness: a stored block without transactions was handed to
\* save_block again
C18_Witness ==
    /\ sv_ret = "False"
    /\ AlreadyStored(sv_block, sv_before)
    /\ sv_block.transactions = <<>>
    /\ stored = sv_before
    /\ Len(stored) >= 1

\* the block of the greatest index (get_latest_block, storage.py:110)
Tip(rows) == SortByIndex(rows)[Len(rows)]

\* C19 (as claimed): save_block rejects a block whose header.previous_hash
\* is not the hash of the tip of the stored chain, and leaves the chain as
\* it was.
C19_StaleBlockRejected ==
    (/\ sv_ret # "none"
     /\ sv_before # <<>>
     /\ sv_block.header.previous_hash # Tip(sv_before).hash)
        => /\ sv_ret = "False"
           /\ stored = sv_before

\* C20 (as claimed): the chain get_all_blocks reads is index-contiguous from
\* 0 and every block after the first has the hash of the block before it as
\* header.previous_hash.
C20_StoredChainContiguous ==
    /\ \A i \in 1..Len(get_all_blocks) : get_all_blocks[i].index = i - 1
    /\ \A i \in 2..Len(get_all_blocks) :
          get_all_blocks[i].header.previous_hash = get_all_blocks[i - 1].hash
C22_ReplacementSerialized ==
    [][(~replaced /\ replaced' /\ Len(new_chain) = max_length)
           => Len(stored') > Len(stored)]_vars

(***************************************************************************)
(* Claims about the order of the requests of one resolve_conflicts call,   *)
(* read off the log of the requests it sent.                               *)
(***************************************************************************)
\* the k-th request asked a peer for its blocks and valid_chain accepted
\* the answer: the peer's chain became the candidate
Accepted(k) ==
    /\ log[k].req = "chain"
    /\ AnswerOf(log[k].node).s3 = "ok"
    /\ valid_chain(AnswerOf(log[k].node).chain)

\* the largest of the local length at the start and the lengths reported by
\* the peers whose chains became the candidate before the k-th request
RunningMax(k) ==
    LET lens == {start_len}
                  \cup {AnswerOf(log[j].node).length :
                          j \in {i \in 1..(k - 1) : Accepted(i)}}
    IN CHOOSE m \in lens : \A l \in lens : l <= m

\* the request that made the present candidate: the first accepted one of
\* the largest reported length
FirstBest ==
    CHOOSE k \in 1..Len(log) :
        /\ Accepted(k)
        /\ \A j \in 1..Len(log) :
               Accepted(j)
                   => \/ AnswerOf(log[j].node).length < AnswerOf(log[k].node).length
                      \/ (AnswerOf(log[j].node).length = AnswerOf(log[k].node).length
                            /\ k <= j)

\* C23: max_length is the running maximum (the local length at first, then
\* the length reported by each accepted candidate); headers and blocks are
\* requested only of a peer that reported more than it; a peer reporting as
\* much as the present best is asked for nothing more, so the candidate is
\* the first accepted chain of the largest reported length.
C23_RunningMaximum ==
    /\ \A k \in 1..Len(log) :
           /\ log[k].best = RunningMax(k)
           /\ log[k].req \in {"hdr", "chain"}
                 => AnswerOf(log[k].node).length > RunningMax(k)
    /\ pc \in {"loop", "adopt"}
          => /\ max_length = RunningMax(Len(log) + 1)
             /\ new_chain = IF \E k \in 1..Len(log) : Accepted(k)
                            THEN AnswerOf(log[FirstBest].node).chain
                            ELSE <<>>

\* two peers served different valid chains and reported the same length:
\* the first became the candidate, the second was asked for its length only
C23_Witness ==
    /\ pc = "adopt"
    /\ \E j, k \in 1..Len(log) :
          /\ j < k
          /\ Accepted(j)
          /\ new_chain = AnswerOf(log[j].node).chain
          /\ log[k].req = "len"
          /\ \A i \in 1..Len(log) : log[i].node = log[k].node => i = k
          /\ FullyValid(AnswerOf(log[k].node))
          /\ AnswerOf(log[k].node).length = AnswerOf(log[j].node).length
          /\ AnswerOf(log[k].node).chain # new_chain

\* lines 121-167 for one peer answering a, from the best length and the
\* candidate so far: what the loop body leaves, or that an exception left
\* the call
PollOne(a, acc) ==
    LET raised == [acc EXCEPT !.raised = TRUE] IN
    IF acc.raised THEN acc
    ELSE IF Caught(a.s1) \/ a.s1 = "status" THEN acc
    ELSE IF a.s1 # "ok" THEN raised
    ELSE IF ~(a.length > acc.best) THEN acc
    ELSE IF Caught(a.s2) \/ a.s2 = "status" THEN acc
    ELSE IF a.s2 # "ok" THEN raised
    ELSE IF valid_chain_headers(a.headers) = "KeyError" THEN raised
    ELSE IF valid_chain_headers(a.headers) = "False" THEN acc
    ELSE IF Caught(a.s3) \/ a.s3 = "status" THEN acc
    ELSE IF a.s3 # "ok" THEN raised
    ELSE IF valid_chain(a.chain)
    THEN [acc EXCEPT !.best = a.length, !.chain = a.chain]
    ELSE acc

\* the loop of lines 121-167 over the peers in the order given
RECURSIVE PollAll(_, _)
PollAll(order, acc) ==
    IF order = <<>> THEN acc
    ELSE PollAll(Tail(order), PollOne(AnswerOf(order[1]), acc))

\* whether the call polling the peers in this order replaces the chain, and
\* the number of blocks of the chain it puts
Outcome(order) ==
    LET end == PollAll(order, [best |-> start_len, chain |-> <<>>,
                               raised |-> FALSE])
    IN IF end.raised \/ end.chain = <<>>
       THEN [replaces |-> FALSE, len |-> 0]
       ELSE [replaces |-> TRUE, len |-> Len(end.chain)]

\* the orders in which the peers of S can be polled
Orders(S) ==
    {o \in [1..Cardinality(S) -> S] :
        \A i, j \in 1..Cardinality(S) : o[i] = o[j] => i = j}

\* no answer of the peer raises an exception the except clause lets through
Isolated(a) ==
    /\ a.s1 # "nokey"
    /\ a.s2 # "nokey"
    /\ a.s3 \notin {"nokey", "badentry"}
    /\ valid_chain_headers(a.headers) # "KeyError"

\* C24 (as claimed): when the call is over, whether it replaced the chain
\* and the number of blocks of the chain it put are what polling the same
\* peers in any other order gives.  Stated for the calls during which
\* nothing is registered and whose peers raise no exception out of the
\* loop.
C24_OrderIndependent ==
    (/\ pc \in {"done", "hung"}
     /\ nodes = start_nodes
     /\ \A n \in PolledAtStart : Isolated(AnswerOf(n)))
        => \A o \in Orders(PolledAtStart) :
               Outcome(o) = [replaces |-> replaced,
                             len |-> IF replaced THEN Len(stored) ELSE 0]

\* the peer's full header list came with status 200 and valid_chain_headers
\* accepted it
HeadersPassed(n) ==
    /\ AnswerOf(n).s2 = "ok"
    /\ valid_chain_headers(AnswerOf(n).headers) = "True"

\* C25: a peer is asked for its blocks only after it was asked for its full
\* header list and that list came with status 200 and was accepted by
\* valid_chain_headers; the candidate is the chain of a peer that was asked
\* for its blocks.
C25_HeaderFirst ==
    /\ \A k \in 1..Len(log) :
           log[k].req = "chain"
               => /\ HeadersPassed(log[k].node)
                  /\ \E j \in 1..(k - 1) :
                         log[j].req = "hdr" /\ log[j].node = log[k].node
    /\ new_chain # <<>>
          => \E k \in 1..Len(log) :
                 /\ log[k].req = "chain"
                 /\ new_chain = AnswerOf(log[k].node).chain

\* a peer's header list was rejected and the peer was asked for nothing
\* more; another peer's headers passed and its chain became the candidate
C25_Witness ==
    /\ pc = "adopt"
    /\ new_chain # <<>>
    /\ \E j \in 1..Len(log) :
          /\ log[j].req = "hdr"
          /\ AnswerOf(log[j].node).s2 = "ok"
          /\ valid_chain_headers(AnswerOf(log[j].node).headers) = "False"
          /\ \A k \in 1..Len(log) :
                 log[k].node = log[j].node => log[k].req # "chain"

\* C26 (as claimed): the step of lines 169-178 either replaces the stored
\* chain, assigns the empty pending list and the reloaded mirror and
\* returns True, or leaves the stored chain and the attributes of the
\* Blockchain as they are and returns False.
C26_TrueIffReplaced ==
    [][(pc = "adopt" /\ pc' # "adopt")
          => \/ /\ replaced'
                /\ stored' = new_chain
                /\ pc' = "done" /\ ret' = "True"
                /\ {"current_transactions", "chain"} \subseteq self_attrs'
             \/ /\ ~replaced'
                /\ pc' = "done" /\ ret' = "False"
                /\ UNCHANGED <<stored, self_attrs>>]_vars

(***************************************************************************)
(* Claims about valid_chain_headers, checked under SpecChain.              *)
(***************************************************************************)
\* linkage, the recomputed hash or the leading zeros fail for some header
HeaderCheckFails(headers) ==
    \E i \in 1..Len(headers) :
        \/ i > 1 /\ headers[i].previous_hash # headers[i - 1].hash
        \/ HeaderDictHash(headers[i]) # headers[i].hash
        \/ ~StartsWithZeros(headers[i].hash, headers[i].difficulty)

\* C27 (as claimed): valid_chain_headers returns False for the empty list;
\* it returns True for the headers of every chain valid_chain accepts; it
\* returns False for every header list in which linkage, the recomputed
\* hash or the leading zeros fail for some header, the first included.
C27_HeadersSameChecks ==
    Checked
        => /\ valid_chain_headers(<<>>) = "False"
           /\ \A with_index \in BOOLEAN :
                  LET headers == HeadersOf(cand, with_index) IN
                  /\ verdict => valid_chain_headers(headers) = "True"
                  /\ HeaderCheckFails(headers)
                        => valid_chain_headers(headers) = "False"

(***************************************************************************)
(* Claims about the nonce search, checked under SpecBlock.                 *)
(***************************************************************************)
\* the header h with nonce n meets h's difficulty
Meets(h, n) ==
    StartsWithZeros(BlockHeader_calculate_hash([h EXCEPT !.nonce = n]),
                    h.difficulty)

\* C28: mine_block leaves the header with the smallest nonce, at or above
\* the nonce it held, whose hash meets the difficulty, every nonce from the
\* start up to it having failed, and with every other field as it was; with
\* difficulty 0 the header is left as it was.  A constructed Block's search
\* starts at nonce 0.
C28_NonceSearch ==
    /\ fn = "mine"
          => /\ fn_out.header = [fn_in EXCEPT !.nonce = fn_out.header.nonce]
             /\ fn_out.header.nonce >= fn_in.nonce
             /\ Meets(fn_in, fn_out.header.nonce)
             /\ \A n \in fn_in.nonce..(fn_out.header.nonce - 1) :
                    ~Meets(fn_in, n)
             /\ fn_in.difficulty = 0 => fn_out.header = fn_in
    /\ fn = "block"
          => /\ Meets(fn_out.header, fn_out.header.nonce)
             /\ \A n \in 0..(fn_out.header.nonce - 1) : ~Meets(fn_out.header, n)

\* the search started above a nonce that meets the difficulty, on a nonce
\* that does not, and stopped on a later one
C28_Witness ==
    /\ fn = "mine"
    /\ \E n \in 0..(fn_in.nonce - 1) : Meets(fn_in, n)
    /\ ~Meets(fn_in, fn_in.nonce)
    /\ fn_out.header.nonce > fn_in.nonce

(***************************************************************************)
(* Termination of resolve_conflicts, checked under SpecLive.               *)
(***************************************************************************)
\* C29 (as claimed): a call that has started is over after finitely many
\* steps, whatever the peers answer and whichever of them never answer.
C29_Terminates == (pc = "loop") ~> (pc = "done")

(***************************************************************************)
(* Claims about the registry over the life of the node, checked under Spec.*)
(***************************************************************************)
\* C31: no step of register_node or resolve_conflicts takes a location out
\* of the registry, and a step that adds one is a register_node call: it
\* adds the location of its address and leaves the running call alone.
C31_RegistryOnlyGrows ==
    [][/\ nodes \subseteq nodes'
       /\ nodes' # nodes
             => /\ \E address \in Addresses :
                       nodes' = nodes \cup {RegisteredNetloc(address)}
                /\ UNCHANGED <<stored, varsCall>>]_vars

\* a call over a registry of two locations has ended, one of its peers
\* having been unreachable, and a location was registered meanwhile
C31_Witness ==
    /\ pc = "done"
    /\ Cardinality(start_nodes) >= 2
    /\ start_nodes \subseteq nodes
    /\ nodes # start_nodes
    /\ \E n \in polled : AnswerOf(n).s1 = "reqerr"

(***************************************************************************)
(* Claims about what the storage keeps, checked under SpecStore.           *)
(***************************************************************************)
\* C32: a save_block call that returns True adds the block's row after the
\* stored rows and one that returns False leaves the rows as they are, so
\* every block and transaction stored before is stored unchanged after;
\* apart from that the stored chain changes only by a replacement, which
\* puts the whole new chain.
C32_StoredBlocksImmutable ==
    [][\/ /\ sv_ret' = "True"
          /\ stored' = Append(stored, StoredBlock(sv_block'))
       \/ /\ sv_ret' = "False"
          /\ stored' = stored
       \/ /\ rp_ret' = "done"
          /\ stored' = rp_blocks'
       \/ /\ rp_ret' = "failed"
          /\ stored' = stored]_vars

\* a block was saved whose index a stored block already has
C32_Witness ==
    /\ sv_ret = "True"
    /\ sv_before # <<>>
    /\ \E i \in 1..Len(sv_before) : sv_before[i].index = sv_block.index
    /\ Len(stored) = Len(sv_before) + 1
    /\ \A i \in 1..Len(sv_before) : stored[i] = sv_before[i]

\* C33 (as claimed): save_block returns False only for a block whose hash
\* is stored; a block with a new hash is stored with all its transactions
\* and True is returned, also when two of its transactions are the same or
\* one of them is in a stored block.
C33_FalseOnlyIfHashStored ==
    sv_ret # "none"
        => IF AlreadyStored(sv_block, sv_before)
           THEN sv_ret = "False" /\ stored = sv_before
           ELSE sv_ret = "True"
                /\ stored = Append(sv_before, StoredBlock(sv_block))

\* BlockchainStorage.validate_chain (storage.py:263-282) on the blocks
\* get_all_blocks builds from the rows: the loop starts at the second block
validate_chain ==
    LET blocks == [i \in 1..Len(get_all_blocks) |->
                      StoredBlock(get_all_blocks[i])]
    IN \A i \in 2..Len(blocks) :
          /\ blocks[i].header.previous_hash = blocks[i - 1].hash
          /\ blocks[i].index = blocks[i - 1].index + 1
          /\ Block_is_valid(blocks[i])

C37_RegistrationDuringResolve ==
    (pc = "done" /\ nodes # start_nodes)
        => /\ ret # "RuntimeError"
           /\ ret \in {"True", "False"}
                 => (start_nodes \ {MyAddress}) \subseteq polled

(***************************************************************************)
(* Claims about the mining service and the lifespan of the admin           *)
(* application, checked under SpecService and SpecServiceLive.             *)
(***************************************************************************)
\* the step sends a request: a task comes to wait for the answer to its
\* pending-transactions query or to its mine request
RequestSent ==
    \E t \in TaskIds :
        tasks'[t].st \in {"get", "post"} /\ tasks'[t].st # tasks[t].st

\* C34: start() changes nothing when the service is running; whatever the
\* start and stop calls were, a start during a stop's await included, at
\* most one mining loop task can send requests, and is_running is True
\* exactly when there is one.
C34_OneMiningLoop ==
    /\ [](/\ Cardinality({t \in TaskIds : Active(t)}) <= 1
          /\ mining_is_running <=> (\E t \in TaskIds : Active(t)))
    /\ [][(event'.kind = "start" /\ mining_is_running)
             => UNCHANGED <<mining_is_running, mining_task, tasks>>]_vars

\* C34 witness: start() was called while a stop() awaits its cancelled
\* task, which has not ended yet; the new task is the one that runs.
C34_Witness ==
    /\ mining_is_running
    /\ Active(mining_task)
    /\ \E s \in stops : /\ s.started
                        /\ s.task # mining_task
                        /\ ~Finished(s.task)

AnswerPending(t) == MiningLoopStep(t) /\ event' = Ev("answer", t, "200_txs")

\* C36: a task of the mining loop sends a mine request in a step exactly
\* when the step is the answer to its query with status 200 and a list
\* that is not empty; a failed query or mine request does not end the
\* task: a task that can send requests and is not waiting for the answer
\* to a query sends its next query, unless stop() cancels it; and when
\* pending transactions remain (its queries are not answered otherwise for
\* ever) it sends a mine request, unless stop() cancels it.
C36_MineOnPending ==
    /\ [][\A t \in TaskIds :
             (tasks'[t].st = "post" /\ tasks[t].st # "post")
                 <=> event' = Ev("answer", t, "200_txs")]_vars
    /\ [][event'.kind \in {"answer", "mined"}
             => tasks'[event'.task].st \notin {"done", "cancelled"}]_vars
    /\ \A t \in TaskIds :
          (Active(t) /\ tasks[t].st # "get")
              ~> (tasks[t].st = "get" \/ tasks[t].cancel)
    /\ \A t \in TaskIds :
          SF_vars(AnswerPending(t))
              => (Active(t) ~> (tasks[t].st = "post" \/ tasks[t].cancel))

\* C36 witness: a query failed with an exception, the task sleeps and can
\* still send requests.
C36_Witness ==
    \E t \in TaskIds :
        /\ event = Ev("answer", t, "exception")
        /\ tasks[t].st = "sleep"
        /\ Active(t)
        /\ mining_is_running

\* C39 (as claimed): when the lifespan has ended, the pool loop and the
\* mining loop are stopped, and the pool loop has not called the storage
\* after storage.close().
C39_ShutdownOrdering ==
    /\ ~used_closed
    /\ life = "down"
          => /\ ~pool_is_running
             /\ pool_task \in {"done", "cancelled"}
             /\ ~mining_is_running
             /\ \A t \in TaskIds : ~Active(t)

====

